---- MODULE Spec2Model ----
(***************************************************************************)
(* Quadwave MIDI bridge: the sysex frame handler (QuadwaveBridge._handle)  *)
(* and the two snapshot engines it drives (NeckState, TouchState), as a    *)
(* state machine.  Frames are records [type, data]; data is the tuple of   *)
(* 7-bit data bytes of the message.  Python's 0-based payload[i] is        *)
(* payload[i + 1] here.                                                    *)
(***************************************************************************)
EXTENDS Integers, Sequences, FiniteSets, TLC

VARIABLES
    neck,      \* bridge.neck : [prev, curr], each a tuple of string masks
    touch,     \* bridge.touch: [prev, curr], each a tuple of touch points
    sink,      \* everything written so far, in order: outport.send and print
    inbound,   \* the frames delivered to the handler so far, in arrival order
    msg,       \* the frame of the most recent handler call
    payload,   \* the payload of the most recent decode (data[4:] in _handle)
    err,       \* the exception the most recent call raised, or "none"
    op,        \* the most recent call: "init", "_handle", "neck.update",
               \* "touch.update", "neck.events", "touch.events"
    ret,       \* what the direct events() calls since the last update returned
    string_masks, \* the masks build_neck_sysex is given (scenario runs only)
    touch_points \* the touch points build_touch_sysex is given (scenario runs only)

vars == <<neck, touch, sink, inbound, msg, payload, err, op, ret, string_masks, touch_points>>

(***************************************************************************)
(* Program constants                                                       *)
(***************************************************************************)
MFG_ID == <<0, 34, 10>>          \* [0x00, 0x22, 0x0A]

NUM_STRINGS == 4

MAX_TOUCHES == 5

NUM_VALID_BITS == 16

VALID_BITS == 0 .. (NUM_VALID_BITS - 1)

\* BIT_TO_FRET numbering the frets from 0
BIT_TO_FRET_FromZero(b) == b

BIT_TO_FRET(b) == b + 1

FRET_TO_BIT(f) == f - 1

NECK_PAYLOAD_LEN == 12

TOUCH_RECORD_LEN == 6

NUM_COLORS == 3

colors == <<"blue", "green", "purple">>

MSGID_NECK == 1

MSGID_TOUCH == 2

MSGID_CONFIG == 3

(***************************************************************************)
(* Python integer operators on naturals below 2^32: <<, >>, |, ^, &.  The  *)
(* bitwise ones work on the two halves of a w-bit word, down to one bit.   *)
(***************************************************************************)
Pow2(n) == 2 ^ n

Shl(a, n) == a * Pow2(n)

Shr(a, n) == a \div Pow2(n)

WORD_BITS == 32

RECURSIVE BitOrW(_, _, _)
BitOrW(a, b, w) ==
    IF a = 0 THEN b
    ELSE IF b = 0 THEN a
    ELSE IF w = 1 THEN 1
    ELSE LET h == w \div 2
         IN  BitOrW(a % Pow2(h), b % Pow2(h), h)
             + Pow2(h) * BitOrW(a \div Pow2(h), b \div Pow2(h), h)

BitOr(a, b) == BitOrW(a, b, WORD_BITS)

RECURSIVE BitXorW(_, _, _)
BitXorW(a, b, w) ==
    IF a = 0 THEN b
    ELSE IF b = 0 THEN a
    ELSE IF w = 1 THEN 0
    ELSE LET h == w \div 2
         IN  BitXorW(a % Pow2(h), b % Pow2(h), h)
             + Pow2(h) * BitXorW(a \div Pow2(h), b \div Pow2(h), h)

BitXor(a, b) == BitXorW(a, b, WORD_BITS)

RECURSIVE BitAndW(_, _, _)
BitAndW(a, b, w) ==
    IF a = 0 \/ b = 0 THEN 0
    ELSE IF w = 1 THEN 1
    ELSE LET h == w \div 2
         IN  BitAndW(a % Pow2(h), b % Pow2(h), h)
             + Pow2(h) * BitAndW(a \div Pow2(h), b \div Pow2(h), h)

BitAnd(a, b) == BitAndW(a, b, WORD_BITS)

\* Python slices: s[:n] and s[n:]
Take(s, n) == SubSeq(s, 1, IF n < Len(s) THEN n ELSE Len(s))

Drop(s, n) == SubSeq(s, n + 1, Len(s))

Min(a, b) == IF a < b THEN a ELSE b

Max(a, b) == IF a > b THEN a ELSE b

(***************************************************************************)
(* NeckState                                                               *)
(***************************************************************************)
NeckInit == [prev |-> [i \in 1 .. NUM_STRINGS |-> 0],
             curr |-> [i \in 1 .. NUM_STRINGS |-> 0]]

\* NeckMask with the bytes taken as 8-bit: (b0 << 16) | (b1 << 8) | b2
NeckMask_EightBitBytes(b0, b1, b2) == BitOr(BitOr(Shl(b0, 16), Shl(b1, 8)), b2)

\* One string's mask from its three bytes: (b0 << 14) | (b1 << 7) | b2
NeckMask(b0, b1, b2) == BitOr(BitOr(Shl(b0, 14), Shl(b1, 7)), b2)

\* for i in range(0, 12, 3): read three bytes, append the mask.  Reading past
\* the end of the payload raises IndexError and leaves curr as built so far.
RECURSIVE NeckUpdateLoop(_, _, _)
NeckUpdateLoop(pl, i, curr) ==
    IF i >= NECK_PAYLOAD_LEN THEN [curr |-> curr, err |-> "none"]
    ELSE IF i + 2 >= Len(pl) THEN [curr |-> curr, err |-> "IndexError"]
    ELSE NeckUpdateLoop(pl, i + 3,
                        Append(curr, NeckMask(pl[i + 1], pl[i + 2], pl[i + 3])))

\* NeckState.update with prev = curr (no copy) and curr refilled in place:
\* prev and curr are one list
NeckUpdate_Aliased(self, pl) ==
    LET r == NeckUpdateLoop(pl, 0, <<>>)
    IN  [self |-> [prev |-> r.curr, curr |-> r.curr], err |-> r.err]

\* NeckState.update: prev = curr[:]; curr = []; then the loop.
NeckUpdate(self, pl) ==
    LET r == NeckUpdateLoop(pl, 0, <<>>)
    IN  [self |-> [prev |-> self.curr, curr |-> r.curr], err |-> r.err]

\* The bit loop of NeckState.events running over all 21 bits of a mask
NeckEventsBits_AllBits(sidx, p, c, nbits) ==
    LET changed == SelectSeq([i \in 1 .. nbits + 5 |-> i - 1],
                             LAMBDA bit : BitAnd(BitXor(p, c), Shl(1, bit)) # 0)
    IN  [i \in 1 .. Len(changed) |->
            <<sidx, BIT_TO_FRET(changed[i]), BitAnd(c, Shl(1, changed[i])) # 0>>]

\* for bit in VALID_BITS: if diff & (1 << bit): ev.append((sidx,
\* BIT_TO_FRET[bit], bool(c & (1 << bit)))): the events of one string, over
\* the bits 0 .. nbits - 1 in ascending order
NeckEventsBits(sidx, p, c, nbits) ==
    LET changed == SelectSeq([i \in 1 .. nbits |-> i - 1],
                             LAMBDA bit : BitAnd(BitXor(p, c), Shl(1, bit)) # 0)
    IN  [i \in 1 .. Len(changed) |->
            <<sidx, BIT_TO_FRET(changed[i]), BitAnd(c, Shl(1, changed[i])) # 0>>]

\* for sidx, (p, c) in enumerate(zip(prev, curr)): zip stops at the shorter;
\* the events from string sidx on
RECURSIVE NeckEventsLoop(_, _)
NeckEventsLoop(self, sidx) ==
    IF sidx >= Min(Len(self.prev), Len(self.curr)) THEN <<>>
    ELSE NeckEventsBits(sidx, self.prev[sidx + 1], self.curr[sidx + 1], NUM_VALID_BITS)
         \o NeckEventsLoop(self, sidx + 1)

\* NeckState.events with p and c taken the other way round
NeckEvents_Swapped(self) ==
    NeckEventsLoop([prev |-> self.curr, curr |-> self.prev], 0)

\* NeckState.events
NeckEvents(self) == NeckEventsLoop(self, 0)

\* A call of NeckState.events that also takes the diff as seen: prev = curr
NeckEventsCall_Consuming(self) ==
    [self |-> [prev |-> self.curr, curr |-> self.curr], ret |-> NeckEvents(self)]

\* A call of NeckState.events: the engine after it (the method assigns to
\* nothing of self) and the list it returns
NeckEventsCall(self) == [self |-> self, ret |-> NeckEvents(self)]

(***************************************************************************)
(* TouchState                                                              *)
(***************************************************************************)
TouchInit == [prev |-> <<>>, curr |-> <<>>]

DefaultPoint == [x |-> 0, y |-> 0, z |-> 0, pressed |-> FALSE]

\* TouchPoint with the high bytes taken as 8-bit: (x_hi << 8) | x_lo
TouchPoint_EightBit(pl, idx) ==
    [x |-> BitOr(Shl(pl[idx + 2], 8), pl[idx + 1]),
     y |-> BitOr(Shl(pl[idx + 4], 8), pl[idx + 3]),
     z |-> pl[idx + 5],
     pressed |-> pl[idx + 6] # 0]

\* One 6-byte record at 0-based offset idx:
\* x_lo, x_hi, y_lo, y_hi, z, pressed = payload[idx : idx + 6]
TouchPoint(pl, idx) ==
    [x |-> BitOr(Shl(pl[idx + 2], 7), pl[idx + 1]),
     y |-> BitOr(Shl(pl[idx + 4], 7), pl[idx + 3]),
     z |-> pl[idx + 5],
     pressed |-> pl[idx + 6] # 0]

\* for _ in range(nt): if idx + 6 > len(payload): break; ...; idx += 6
RECURSIVE TouchUpdateLoop(_, _, _, _)
TouchUpdateLoop(pl, n, idx, touches) ==
    IF n >= MAX_TOUCHES THEN touches
    ELSE IF idx + TOUCH_RECORD_LEN > Len(pl) THEN touches
    ELSE TouchUpdateLoop(pl, n + 1, idx + TOUCH_RECORD_LEN,
                         Append(touches, TouchPoint(pl, idx)))

\* TouchState.update reading records from offset 0, the count byte included
TouchUpdate_FromCountByte(self, pl) ==
    [self |-> [prev |-> self.curr, curr |-> TouchUpdateLoop(pl, 0, 0, <<>>)],
     err |-> "none"]

\* TouchState.update: prev = curr; curr = touches.  It raises nothing.
TouchUpdate(self, pl) ==
    [self |-> [prev |-> self.curr, curr |-> TouchUpdateLoop(pl, 0, 1, <<>>)],
     err |-> "none"]

\* One slot of TouchState.events with a release reported where the touch was
\* last seen pressed: prev's x, y, z
TouchSlotEvent_ReleasedAtPrev(tid, prev, curr) ==
    IF ~prev.pressed /\ curr.pressed
    THEN <<<<tid, curr.x, curr.y, curr.z, "pressed">>>>
    ELSE IF prev.pressed /\ ~curr.pressed
    THEN <<<<tid, prev.x, prev.y, prev.z, "released">>>>
    ELSE IF prev.pressed /\ curr.pressed /\ (prev.x # curr.x \/ prev.y # curr.y)
    THEN <<<<tid, curr.x, curr.y, curr.z, "drag">>>>
    ELSE <<>>

\* One slot of TouchState.events with every held touch counted as a drag,
\* moved or not
TouchSlotEvent_HeldDrags(tid, prev, curr) ==
    IF ~prev.pressed /\ curr.pressed
    THEN <<<<tid, curr.x, curr.y, curr.z, "pressed">>>>
    ELSE IF prev.pressed /\ ~curr.pressed
    THEN <<<<tid, curr.x, curr.y, curr.z, "released">>>>
    ELSE IF prev.pressed /\ curr.pressed
    THEN <<<<tid, curr.x, curr.y, curr.z, "drag">>>>
    ELSE <<>>

\* One slot of TouchState.events with a pressure change counted as a drag
TouchSlotEvent_PressureDrags(tid, prev, curr) ==
    IF ~prev.pressed /\ curr.pressed
    THEN <<<<tid, curr.x, curr.y, curr.z, "pressed">>>>
    ELSE IF prev.pressed /\ ~curr.pressed
    THEN <<<<tid, curr.x, curr.y, curr.z, "released">>>>
    ELSE IF prev.pressed /\ curr.pressed
            /\ (prev.x # curr.x \/ prev.y # curr.y \/ prev.z # curr.z)
    THEN <<<<tid, curr.x, curr.y, curr.z, "drag">>>>
    ELSE <<>>

\* The if / elif / elif of one slot of TouchState.events
TouchSlotEvent(tid, prev, curr) ==
    IF ~prev.pressed /\ curr.pressed
    THEN <<<<tid, curr.x, curr.y, curr.z, "pressed">>>>
    ELSE IF prev.pressed /\ ~curr.pressed
    THEN <<<<tid, curr.x, curr.y, curr.z, "released">>>>
    ELSE IF prev.pressed /\ curr.pressed /\ (prev.x # curr.x \/ prev.y # curr.y)
    THEN <<<<tid, curr.x, curr.y, curr.z, "drag">>>>
    ELSE <<>>

\* The loop of TouchState.events leaving at the first slot that has no event
\* (a break where the code falls through to the next slot)
RECURSIVE TouchEventsLoop_StopAtGap(_, _, _)
TouchEventsLoop_StopAtGap(self, tid, ev) ==
    IF tid >= Max(Len(self.prev), Len(self.curr)) THEN ev
    ELSE LET prev == IF tid < Len(self.prev) THEN self.prev[tid + 1] ELSE DefaultPoint
             curr == IF tid < Len(self.curr) THEN self.curr[tid + 1] ELSE DefaultPoint
         IN  IF TouchSlotEvent(tid, prev, curr) = <<>> THEN ev
             ELSE TouchEventsLoop_StopAtGap(self, tid + 1,
                                            ev \o TouchSlotEvent(tid, prev, curr))

\* for tid in range(maxn)
RECURSIVE TouchEventsLoop(_, _, _)
TouchEventsLoop(self, tid, ev) ==
    IF tid >= Max(Len(self.prev), Len(self.curr)) THEN ev
    ELSE LET prev == IF tid < Len(self.prev) THEN self.prev[tid + 1] ELSE DefaultPoint
             curr == IF tid < Len(self.curr) THEN self.curr[tid + 1] ELSE DefaultPoint
         IN  TouchEventsLoop(self, tid + 1, ev \o TouchSlotEvent(tid, prev, curr))

\* TouchState.events looking at the slots of curr only: range(len(self.curr))
TouchEvents_CurrSlotsOnly(self) ==
    TouchEventsLoop([prev |-> Take(self.prev, Len(self.curr)), curr |-> self.curr],
                    0, <<>>)

\* TouchState.events
TouchEvents(self) == TouchEventsLoop(self, 0, <<>>)

\* A call of TouchState.events: the engine after it (the method assigns to
\* nothing of self) and the list it returns
TouchEventsCall(self) == [self |-> self, ret |-> TouchEvents(self)]

(***************************************************************************)
(* QuadwaveBridge._handle                                                  *)
(***************************************************************************)
\* self.outport.send(msg), caused by frame number k
Forward(k, m) == [frame |-> k, port |-> "outport", item |-> m]

\* print(...), caused by frame number k
Line(k, text) == [frame |-> k, port |-> "stdout", item |-> text]

\* print(f"String {s+1} fret {fret} {'ON' if on else 'OFF'}") for each event
NeckLines(k, ev) ==
    [i \in 1 .. Len(ev) |->
        Line(k, <<"String", ev[i][1] + 1, ev[i][2], IF ev[i][3] THEN "ON" ELSE "OFF">>)]

\* print(f"Touch {tid} pressed at / released at / dragged to x=.. y=.. z=..")
TouchLines(k, ev) ==
    [i \in 1 .. Len(ev) |->
        Line(k, <<"Touch", ev[i][1], ev[i][5], ev[i][2], ev[i][3], ev[i][4]>>)]

\* The neck branch printing self.neck.events() before self.neck.update(payload)
HandleNeck_EventsBeforeUpdate(k, pl, nk) ==
    LET r == NeckUpdate(nk, pl)
    IN  [neck |-> r.self,
         out  |-> NeckLines(k, NeckEvents(nk)),
         err  |-> r.err]

\* msg_id == 0x01: self.neck.update(payload), then print self.neck.events().
\* An exception of update leaves the handler before events is called.
HandleNeck(k, pl, nk) ==
    LET r == NeckUpdate(nk, pl)
    IN  [neck |-> r.self,
         out  |-> IF r.err = "none" THEN NeckLines(k, NeckEvents(r.self)) ELSE <<>>,
         err  |-> r.err]

\* msg_id == 0x02: self.touch.update(payload), then print self.touch.events()
HandleTouch(k, pl, tc) ==
    LET r == TouchUpdate(tc, pl)
    IN  [touch |-> r.self,
         out   |-> IF r.err = "none" THEN TouchLines(k, TouchEvents(r.self)) ELSE <<>>,
         err   |-> r.err]

\* msg_id == 0x03: colors[payload[0]] is printed first, then the version
\* payload[1..3]; either read may raise IndexError.
HandleConfig(k, pl) ==
    IF Len(pl) < 1 \/ pl[1] >= NUM_COLORS
    THEN [out |-> <<>>, err |-> "IndexError"]
    ELSE IF Len(pl) < 4
    THEN [out |-> <<Line(k, <<"Config", colors[pl[1] + 1]>>)>>, err |-> "IndexError"]
    ELSE [out |-> <<Line(k, <<"Config", colors[pl[1] + 1]>>),
                    Line(k, <<"Firmware", pl[2], pl[3], pl[4]>>)>>,
          err |-> "none"]

\* The first guard of _handle: msg.type != "sysex"
NotSysex(m) == m.type # "sysex"

\* The second guard comparing two bytes of the tag only
WrongTag_TwoBytes(m) == Take(m.data, 2) # Take(MFG_ID, 2)

\* The second guard of _handle: data[:3] != MFG_ID
WrongTag(m) == Take(m.data, 3) # MFG_ID

\* _handle with one snapshot store for both engines: a touch frame's decode
\* clears the neck snapshots
Handle_TouchClearsNeck(k, m, nk, tc) ==
    LET same == [neck |-> nk, touch |-> tc, out |-> <<>>, err |-> "none",
                 payload |-> <<>>]
    IN  IF NotSysex(m) THEN [same EXCEPT !.out = <<Forward(k, m)>>]
        ELSE IF WrongTag(m) THEN [same EXCEPT !.out = <<Forward(k, m)>>]
        ELSE IF Len(m.data) < 4 THEN [same EXCEPT !.err = "IndexError"]
        ELSE LET msg_id == m.data[4]
                 pl == Drop(m.data, 4)
             IN  IF msg_id = MSGID_NECK
                 THEN LET r == HandleNeck(k, pl, nk)
                      IN  [same EXCEPT !.neck = r.neck, !.out = r.out,
                                       !.err = r.err, !.payload = pl]
                 ELSE IF msg_id = MSGID_TOUCH
                 THEN LET r == HandleTouch(k, pl, tc)
                      IN  [same EXCEPT !.neck = NeckInit, !.touch = r.touch, !.out = r.out,
                                       !.err = r.err, !.payload = pl]
                 ELSE IF msg_id = MSGID_CONFIG
                 THEN LET r == HandleConfig(k, pl)
                      IN  [same EXCEPT !.out = r.out, !.err = r.err, !.payload = pl]
                 ELSE [same EXCEPT !.payload = pl]

\* _handle(msg) as the k-th call, on engines nk and tc: the engines after it,
\* what it wrote, the exception it raised and the payload it extracted.
Handle(k, m, nk, tc) ==
    LET same == [neck |-> nk, touch |-> tc, out |-> <<>>, err |-> "none",
                 payload |-> <<>>]
    IN  IF NotSysex(m) THEN [same EXCEPT !.out = <<Forward(k, m)>>]
        ELSE IF WrongTag(m) THEN [same EXCEPT !.out = <<Forward(k, m)>>]
        ELSE IF Len(m.data) < 4 THEN [same EXCEPT !.err = "IndexError"]
        ELSE LET msg_id == m.data[4]
                 pl == Drop(m.data, 4)
             IN  IF msg_id = MSGID_NECK
                 THEN LET r == HandleNeck(k, pl, nk)
                      IN  [same EXCEPT !.neck = r.neck, !.out = r.out,
                                       !.err = r.err, !.payload = pl]
                 ELSE IF msg_id = MSGID_TOUCH
                 THEN LET r == HandleTouch(k, pl, tc)
                      IN  [same EXCEPT !.touch = r.touch, !.out = r.out,
                                       !.err = r.err, !.payload = pl]
                 ELSE IF msg_id = MSGID_CONFIG
                 THEN LET r == HandleConfig(k, pl)
                      IN  [same EXCEPT !.out = r.out, !.err = r.err, !.payload = pl]
                 ELSE [same EXCEPT !.payload = pl]

(***************************************************************************)
(* Inputs                                                                  *)
(***************************************************************************)
MaxFrames == 3

Sysex(data) == [type |-> "sysex", data |-> data]

NoMsg == [type |-> "none", data |-> <<>>]

\* encode_mask of the tests: [mask >> 14 & 0x7F, mask >> 7 & 0x7F, mask & 0x7F]
encode_mask(mask) ==
    <<BitAnd(Shr(mask, 14), 127), BitAnd(Shr(mask, 7), 127), BitAnd(mask, 127)>>

\* build_neck_sysex of the tests: MFG_ID + [MSGID_NECK] + the encoded masks
RECURSIVE EncodeMasks(_)
EncodeMasks(masks) ==
    IF masks = <<>> THEN <<>> ELSE encode_mask(Head(masks)) \o EncodeMasks(Tail(masks))

build_neck_sysex(masks) == Sysex(MFG_ID \o <<MSGID_NECK>> \o EncodeMasks(masks))

\* Neck payloads: four byte triples, each string's from its own small set
\* (fret 1, all sixteen frets, fret 8, bit 16, fret 8 with bit 16, frets 15
\* and 16, bit 20 with frets 1 and 7), whole, cut short, and followed by one
\* more byte.
NeckTriples ==
    <<{<<0, 0, 0>>, <<0, 0, 1>>, <<3, 127, 127>>},
      {<<0, 1, 0>>, <<4, 0, 0>>, <<4, 1, 0>>},
      {<<3, 0, 0>>},
      {<<0, 0, 0>>, <<64, 0, 65>>}>>

NeckFull ==
    {a \o b \o c \o d : a \in NeckTriples[1], b \in NeckTriples[2],
                        c \in NeckTriples[3], d \in NeckTriples[4]}

\* The lengths a neck payload is cut to (the spec's scenario cuts to 5)
CutLens == {0, 1, 5, 6, 11}

NeckPayloads ==
    NeckFull \cup {Take(p, n) : p \in NeckFull, n \in CutLens}
             \cup {p \o <<5>> : p \in NeckFull}

\* Touch records x_lo, x_hi, y_lo, y_hi, z, pressed, each slot's from its own
\* small set: slot 0 is pressed at (1000, 2000, 30), dragged to (1010, 2020,
\* 40), pressed harder in place (z 40, flag 127), released at (1010, 2020, 40).
TouchRecords ==
    <<{<<104, 7, 80, 15, 30, 1>>, <<114, 7, 100, 15, 40, 1>>,
       <<104, 7, 80, 15, 40, 127>>, <<114, 7, 100, 15, 40, 0>>},
      {<<92, 11, 64, 12, 20, 1>>, <<0, 0, 0, 0, 0, 0>>},
      {<<1, 0, 1, 0, 1, 1>>},
      {<<0, 0, 0, 0, 0, 0>>},
      {<<2, 0, 2, 0, 2, 1>>},
      {<<3, 0, 3, 0, 3, 1>>}>>

\* The record sequences of n records, n in 0..6 (a sixth record is one more
\* than MAX_TOUCHES)
RECURSIVE TouchBodies(_)
TouchBodies(n) ==
    IF n = 0 THEN {<<>>}
    ELSE {b \o r : b \in TouchBodies(n - 1), r \in TouchRecords[n]}

\* Touch payloads: the count byte and the records; for up to two records also
\* with a wrong count byte and with a cut-off next record; and no byte at all.
TouchPayloads ==
    {<<>>}
    \cup UNION {{<<n>> \o b : b \in TouchBodies(n)} : n \in 0 .. MAX_TOUCHES + 1}
    \cup UNION {UNION {{<<0>> \o b, <<5>> \o b \o <<9, 9, 9, 9, 9>>} :
                          b \in TouchBodies(n)} : n \in 0 .. 2}

\* The frames of a session: other MIDI, foreign and short sysex, the three
\* message kinds with good and bad payloads, and unknown kinds.
Frames ==
    {[type |-> "note_on", data |-> <<>>],
     [type |-> "clock", data |-> <<>>],
     Sysex(<<>>), Sysex(<<0, 34>>), Sysex(<<0, 34, 11, 1>>), Sysex(<<125, 1, 2, 3, 4>>),
     Sysex(MFG_ID),
     Sysex(MFG_ID \o <<4>>), Sysex(MFG_ID \o <<0, 1, 2>>),
     build_neck_sysex(<<1, 0, 0, 0>>), build_neck_sysex(<<9, 32, 0, 32768>>),
     Sysex(MFG_ID \o <<MSGID_NECK, 0, 0, 1, 0, 0>>),
     Sysex(MFG_ID \o <<MSGID_TOUCH, 1, 104, 7, 80, 15, 30, 1>>),
     Sysex(MFG_ID \o <<MSGID_TOUCH, 1, 114, 7, 100, 15, 40, 1>>),
     Sysex(MFG_ID \o <<MSGID_TOUCH, 1, 114, 7, 100, 15, 40, 0>>),
     Sysex(MFG_ID \o <<MSGID_CONFIG, 1, 2, 0, 7>>),
     Sysex(MFG_ID \o <<MSGID_CONFIG, 3, 2, 0, 7>>),
     Sysex(MFG_ID \o <<MSGID_CONFIG, 2, 2>>)}

(***************************************************************************)
(* The state machine                                                       *)
(***************************************************************************)
\* QuadwaveBridge.__init__: self.neck, self.touch = NeckState(), TouchState()
Init ==
    /\ neck = NeckInit
    /\ touch = TouchInit
    /\ sink = <<>>
    /\ inbound = <<>>
    /\ msg = NoMsg
    /\ payload = <<>>
    /\ err = "none"
    /\ op = "init"
    /\ ret = <<>>
    /\ string_masks = <<>>
    /\ touch_points = <<>>

\* The input port's callback: one frame, handled to completion.
Deliver(m) ==
    /\ Len(inbound) < MaxFrames
    /\ LET r == Handle(Len(inbound) + 1, m, neck, touch)
       IN  /\ neck' = r.neck
           /\ touch' = r.touch
           /\ sink' = sink \o r.out
           /\ err' = r.err
           /\ payload' = r.payload
    /\ inbound' = Append(inbound, m)
    /\ msg' = m
    /\ op' = "_handle"
    /\ UNCHANGED <<ret, string_masks, touch_points>>

Next == \E m \in Frames : Deliver(m)

Spec == Init /\ [][Next]_vars

\* NeckState.update(payload) called on the neck engine
NeckState_update(pl) ==
    /\ LET r == NeckUpdate(neck, pl)
       IN  neck' = r.self /\ err' = r.err
    /\ payload' = pl
    /\ op' = "neck.update"
    /\ ret' = <<>>
    /\ UNCHANGED <<touch, sink, inbound, msg, string_masks, touch_points>>

NextNeck == \E pl \in NeckPayloads : NeckState_update(pl)

SpecNeck == Init /\ [][NextNeck]_vars

\* TouchState.update(payload) called on the touch engine
TouchState_update(pl) ==
    /\ LET r == TouchUpdate(touch, pl)
       IN  touch' = r.self /\ err' = r.err
    /\ payload' = pl
    /\ op' = "touch.update"
    /\ ret' = <<>>
    /\ UNCHANGED <<neck, sink, inbound, msg, string_masks, touch_points>>

NextTouch == \E pl \in TouchPayloads : TouchState_update(pl)

SpecTouch == Init /\ [][NextTouch]_vars

\* Both engines side by side, each decoding payloads of its own kind in any
\* interleaving
EngineNeckPayloads ==
    {<<0, 0, 1, 0, 1, 0, 3, 0, 0, 0, 0, 0>>, <<3, 127, 127, 4, 0, 0, 3, 0, 0, 64, 0, 65>>,
     <<0, 0, 0, 0, 1, 0, 3, 0, 0, 64, 0, 65, 5>>, <<0, 0, 1, 0, 1>>}

EngineTouchPayloads ==
    {<<>>, <<1, 104, 7, 80, 15, 30, 1>>, <<1, 114, 7, 100, 15, 40, 1>>,
     <<2, 114, 7, 100, 15, 40, 0, 92, 11, 64, 12, 20, 1>>,
     <<0, 104, 7, 80, 15, 40, 127, 9, 9>>}

NextEngines ==
    \/ \E pl \in EngineNeckPayloads : NeckState_update(pl)
    \/ \E pl \in EngineTouchPayloads : TouchState_update(pl)

SpecEngines == Init /\ [][NextEngines]_vars

\* The round trip of the tests' encoder through the neck decode: a fresh
\* engine decodes the encoding of string_masks, for every 16-bit mask M at
\* strings 1 and 3 and its complement (so again every 16-bit mask) at strings
\* 2 and 4.
AllFrets == Pow2(NUM_VALID_BITS) - 1

InitRoundTrip ==
    /\ neck = NeckInit
    /\ touch = TouchInit
    /\ sink = <<>>
    /\ inbound = <<>>
    /\ msg = NoMsg
    /\ payload = <<>>
    /\ err = "none"
    /\ op = "init"
    /\ ret = <<>>
    /\ touch_points = <<>>
    /\ \E M \in 0 .. AllFrets : string_masks = <<M, AllFrets - M, M, AllFrets - M>>

NextRoundTrip == op = "init" /\ NeckState_update(EncodeMasks(string_masks))

SpecRoundTrip == InitRoundTrip /\ [][NextRoundTrip]_vars

\* fret_mask of the tests, for one fret: 1 << FRET_TO_BIT[f]
fret_mask(f) == Shl(1, FRET_TO_BIT(f))

\* test_single_neck_press for any string and fret: a fresh bridge is given the
\* neck frame with fret f alone on string s, then the all-zero neck frame.
InitSingleFret ==
    /\ neck = NeckInit
    /\ touch = TouchInit
    /\ sink = <<>>
    /\ inbound = <<>>
    /\ msg = NoMsg
    /\ payload = <<>>
    /\ err = "none"
    /\ op = "init"
    /\ ret = <<>>
    /\ touch_points = <<>>
    /\ \E s \in 0 .. NUM_STRINGS - 1, f \in 1 .. NUM_VALID_BITS :
          string_masks = [i \in 1 .. NUM_STRINGS |-> IF i = s + 1 THEN fret_mask(f) ELSE 0]

PressFret == inbound = <<>> /\ Deliver(build_neck_sysex(string_masks))

ReleaseFret == Len(inbound) = 1 /\ Deliver(build_neck_sysex(<<0, 0, 0, 0>>))

NextSingleFret == PressFret \/ ReleaseFret

SpecSingleFret == InitSingleFret /\ [][NextSingleFret]_vars

\* One record of build_touch_sysex of the tests:
\* [x & 0x7F, x >> 7, y & 0x7F, y >> 7, z & 0x7F, int(pressed)]
TouchRecordBytes(t) ==
    <<BitAnd(t.x, 127), Shr(t.x, 7), BitAnd(t.y, 127), Shr(t.y, 7), BitAnd(t.z, 127),
      IF t.pressed THEN 1 ELSE 0>>

RECURSIVE EncodeTouches(_)
EncodeTouches(padded) ==
    IF padded = <<>> THEN <<>>
    ELSE TouchRecordBytes(Head(padded)) \o EncodeTouches(Tail(padded))

\* build_touch_sysex of the tests: the touches padded to MAX_TOUCHES with
\* default records, behind the count byte len(touches)
build_touch_sysex(touches) ==
    LET padded == touches \o [i \in 1 .. MAX_TOUCHES - Len(touches) |-> DefaultPoint]
    IN  Sysex(MFG_ID \o <<MSGID_TOUCH, Len(touches)>> \o EncodeTouches(padded))

\* The places and pressures a scenario touch is given
TouchPlaces ==
    {[x |-> x, y |-> y, z |-> z] : x \in {0, 127, 128, 16383}, y \in {0, 2000, 16383},
                                   z \in {0, 30, 127}}

\* The touch t as a record of a frame, pressed or not
TouchAt(t, pressed) == [x |-> t.x, y |-> t.y, z |-> t.z, pressed |-> pressed]

\* test_touch_press_drag_release for any two places: a fresh bridge is given
\* slot 0 pressed at touch_points[1], then pressed at touch_points[2], a
\* different (x, y), then not pressed at touch_points[2].
InitLifecycle ==
    /\ neck = NeckInit
    /\ touch = TouchInit
    /\ sink = <<>>
    /\ inbound = <<>>
    /\ msg = NoMsg
    /\ payload = <<>>
    /\ err = "none"
    /\ op = "init"
    /\ ret = <<>>
    /\ string_masks = <<>>
    /\ \E p0, p1 \in TouchPlaces :
          /\ <<p0.x, p0.y>> # <<p1.x, p1.y>>
          /\ touch_points = <<p0, p1>>

PressTouch ==
    inbound = <<>> /\ Deliver(build_touch_sysex(<<TouchAt(touch_points[1], TRUE)>>))

DragTouch ==
    Len(inbound) = 1 /\ Deliver(build_touch_sysex(<<TouchAt(touch_points[2], TRUE)>>))

ReleaseTouch ==
    Len(inbound) = 2 /\ Deliver(build_touch_sysex(<<TouchAt(touch_points[2], FALSE)>>))

NextLifecycle == PressTouch \/ DragTouch \/ ReleaseTouch

SpecLifecycle == InitLifecycle /\ [][NextLifecycle]_vars

\* The most events() calls followed between two updates
MaxDiffCalls == 3

\* NeckState.events() called on the neck engine
NeckState_events ==
    /\ Len(ret) < MaxDiffCalls
    /\ LET r == NeckEventsCall(neck)
       IN  /\ neck' = r.self
           /\ ret' = Append(ret, [engine |-> "neck", events |-> r.ret])
    /\ err' = "none"
    /\ op' = "neck.events"
    /\ UNCHANGED <<touch, sink, inbound, msg, payload, string_masks, touch_points>>

\* TouchState.events() called on the touch engine
TouchState_events ==
    /\ Len(ret) < MaxDiffCalls
    /\ LET r == TouchEventsCall(touch)
       IN  /\ touch' = r.self
           /\ ret' = Append(ret, [engine |-> "touch", events |-> r.ret])
    /\ err' = "none"
    /\ op' = "touch.events"
    /\ UNCHANGED <<neck, sink, inbound, msg, payload, string_masks, touch_points>>

\* Both engines, each decoding and diffing in any interleaving
NextDiff ==
    \/ \E pl \in EngineNeckPayloads : NeckState_update(pl)
    \/ \E pl \in EngineTouchPayloads : TouchState_update(pl)
    \/ NeckState_events
    \/ TouchState_events

SpecDiff == Init /\ [][NextDiff]_vars

\* The neck frames of a session: nothing held, single frets, chords, all
\* sixteen frets of a string, masks with bits 16 and 20, a frame with one byte
\* too many, and a frame cut short
NeckFrames ==
    {build_neck_sysex(<<0, 0, 0, 0>>),
     build_neck_sysex(<<1, 0, 0, 0>>),
     build_neck_sysex(<<9, 32, 0, 32768>>),
     build_neck_sysex(<<8, 32, 1, 32768>>),
     build_neck_sysex(<<65535, 0, 0, 1>>),
     build_neck_sysex(<<65536, 0, 0, 1048576 + 65>>),
     build_neck_sysex(<<65537, 32, 0, 32768>>),
     Sysex(MFG_ID \o <<MSGID_NECK, 0, 0, 9, 0, 0, 32, 0, 0, 0, 2, 0, 0, 5>>),
     Sysex(MFG_ID \o <<MSGID_NECK, 0, 0, 1, 0, 0>>)}

\* A session of neck frames only
NextNeckStream == \E m \in NeckFrames : Deliver(m)

SpecNeckStream == Init /\ [][NextNeckStream]_vars

\* The touch frames of a session: no payload at all, one record (pressed,
\* moved, not pressed), two and three records, and the five padded records
\* build_touch_sysex sends
TouchFrames ==
    {Sysex(MFG_ID \o <<MSGID_TOUCH>>),
     Sysex(MFG_ID \o <<MSGID_TOUCH, 1, 104, 7, 80, 15, 30, 1>>),
     Sysex(MFG_ID \o <<MSGID_TOUCH, 1, 114, 7, 100, 15, 40, 1>>),
     Sysex(MFG_ID \o <<MSGID_TOUCH, 1, 114, 7, 100, 15, 40, 0>>),
     Sysex(MFG_ID \o <<MSGID_TOUCH, 2, 104, 7, 80, 15, 30, 1, 92, 11, 64, 12, 20, 1>>),
     Sysex(MFG_ID \o <<MSGID_TOUCH, 2, 104, 7, 80, 15, 30, 0, 93, 11, 64, 12, 20, 1>>),
     Sysex(MFG_ID \o <<MSGID_TOUCH, 3, 104, 7, 80, 15, 30, 1, 0, 0, 0, 0, 0, 0,
                       1, 0, 1, 0, 1, 1>>),
     build_touch_sysex(<<[x |-> 500, y |-> 600, z |-> 10, pressed |-> TRUE],
                         [x |-> 1500, y |-> 1600, z |-> 20, pressed |-> TRUE]>>)}

\* A session of touch frames only
NextTouchStream == \E m \in TouchFrames : Deliver(m)

SpecTouchStream == Init /\ [][NextTouchStream]_vars

(***************************************************************************)
(* Properties                                                              *)
(***************************************************************************)
\* Bit b of n, by arithmetic
Bit(n, b) == (n \div Pow2(b)) % 2

\* What the handler sent to the output port, in order
Outport == SelectSeq(sink, LAMBDA e : e.port = "outport")

\* What the handler printed, in order
Stdout == SelectSeq(sink, LAMBDA e : e.port = "stdout")

\* C1: a neck payload shorter than 12 bytes makes NeckState.update fail and
\* leaves prev and curr exactly as they were before the call.
C1_MalformedNeckPayloadKeepsSnapshots ==
    [][(op' = "neck.update" /\ Len(payload') < NECK_PAYLOAD_LEN)
          => (err' # "none" /\ neck' = neck)]_vars

\* The frame is sysex, carries the manufacturer tag and a message-kind byte
\* that is none of 0x01, 0x02, 0x03
UnknownKind(m) ==
    /\ m.type = "sysex"
    /\ Len(m.data) >= 4
    /\ \A i \in 1 .. 3 : m.data[i] = MFG_ID[i]
    /\ m.data[4] \notin {1, 2, 3}

\* The step wrote exactly one thing: msg', unmodified, to the output port
ForwardedOnly ==
    /\ Len(sink') = Len(sink) + 1
    /\ SubSeq(sink', 1, Len(sink)) = sink
    /\ sink'[Len(sink')].port = "outport"
    /\ sink'[Len(sink')].item = msg'

\* C2: a tagged sysex frame of an unknown message kind is forwarded unmodified
\* to the pass-through output, with no event, no error and both engines'
\* snapshots unchanged.
C2_UnknownKindPassedThrough ==
    [][(op' = "_handle" /\ UnknownKind(msg'))
          => (ForwardedOnly /\ err' = "none" /\ neck' = neck /\ touch' = touch)]_vars

\* The frame is no recognized control frame: not sysex, or its first three
\* data bytes are not the tag, or it has no message-kind byte
NotControlFrame(m) ==
    \/ m.type # "sysex"
    \/ Len(m.data) < 4
    \/ \E i \in 1 .. 3 : m.data[i] # MFG_ID[i]

\* C3: a frame that is not sysex, has a foreign tag or is too short raises no
\* error, is forwarded to the pass-through output and causes no decode.
C3_NonControlFramePassedThrough ==
    [][(op' = "_handle" /\ NotControlFrame(msg'))
          => (ForwardedOnly /\ err' = "none" /\ neck' = neck /\ touch' = touch)]_vars

\* The frame is a pass-through frame: not sysex, or its first three data
\* bytes are not the manufacturer tag
PassThroughFrame(m) ==
    \/ m.type # "sysex"
    \/ Len(m.data) < 3
    \/ \E i \in 1 .. 3 : m.data[i] # MFG_ID[i]

\* C4: the output port has received exactly the pass-through frames that
\* arrived, once each, unmodified and in arrival order, and whatever a frame
\* caused was written before anything a later frame caused.
C4_PassThroughInArrivalOrder ==
    /\ [i \in 1 .. Len(Outport) |-> Outport[i].item] = SelectSeq(inbound, PassThroughFrame)
    /\ \A i \in 1 .. Len(Outport) :
          /\ Outport[i].frame \in 1 .. Len(inbound)
          /\ inbound[Outport[i].frame] = Outport[i].item
          /\ i > 1 => Outport[i - 1].frame < Outport[i].frame
    /\ \A i \in 1 .. Len(sink) : sink[i].frame \in 1 .. Len(inbound)
    /\ \A i \in 1 .. Len(sink) - 1 : sink[i].frame <= sink[i + 1].frame

\* Two different pass-through frames with a frame that printed events between
C4_Witness ==
    /\ Len(inbound) = 3
    /\ PassThroughFrame(inbound[1]) /\ PassThroughFrame(inbound[3])
    /\ inbound[1] # inbound[3]
    /\ Len(sink) >= 3
    /\ sink[1].port = "outport" /\ sink[2].port = "stdout"
    /\ sink[Len(sink)].port = "outport"

\* C5: prev and curr of the neck engine are always exactly 4 integers with no
\* bit at position 16 or above.
C5_NeckSnapshotsFourMasksOfSixteenBits ==
    \A snap \in {neck.prev, neck.curr} :
        /\ Len(snap) = NUM_STRINGS
        /\ \A i \in 1 .. Len(snap) : snap[i] < Pow2(16)

\* The (string, bit) places, bit in 0..15, at which prev and curr differ
ChangedBits ==
    {sb \in (0 .. 3) \X (0 .. 15) :
        Bit(neck.prev[sb[1] + 1], sb[2]) # Bit(neck.curr[sb[1] + 1], sb[2])}

\* C6: on two snapshots of four masks the neck diff has exactly one event
\* (s, b + 1, bit b of curr[s]) per differing place (s, b), b in 0..15, and
\* no other; events are ordered by string, then by bit, ascending.
C6_NeckDiffExactAndOrdered ==
    (Len(neck.prev) = NUM_STRINGS /\ Len(neck.curr) = NUM_STRINGS) =>
        LET ev == NeckEvents(neck)
        IN  /\ Len(ev) = Cardinality(ChangedBits)
            /\ \A i \in 1 .. Len(ev) :
                  /\ <<ev[i][1], ev[i][2] - 1>> \in ChangedBits
                  /\ ev[i][3] = (Bit(neck.curr[ev[i][1] + 1], ev[i][2] - 1) = 1)
            /\ \A i \in 1 .. Len(ev) - 1 :
                  \/ ev[i][1] < ev[i + 1][1]
                  \/ ev[i][1] = ev[i + 1][1] /\ ev[i][2] < ev[i + 1][2]

\* Several frets change at once on one string and on another, some ON, some OFF
C6_Witness ==
    /\ Len(neck.prev) = NUM_STRINGS /\ Len(neck.curr) = NUM_STRINGS
    /\ LET ev == NeckEvents(neck)
       IN  /\ \E i, j \in 1 .. Len(ev) : i # j /\ ev[i][1] = 0 /\ ev[j][1] = 0 /\ ev[i][3]
           /\ \E i, j \in 1 .. Len(ev) : i # j /\ ev[i][1] = 3 /\ ev[j][1] = 3 /\ ~ev[i][3]

\* The snapshot's entry for slot t, or the default point when it has none
SlotPoint(snap, t) ==
    IF t < Len(snap) THEN snap[t + 1] ELSE [x |-> 0, y |-> 0, z |-> 0, pressed |-> FALSE]

\* The event kind of one slot, by priority
SlotKind(p, c) ==
    IF ~p.pressed /\ c.pressed THEN "pressed"
    ELSE IF p.pressed /\ ~c.pressed THEN "released"
    ELSE IF p.pressed /\ c.pressed /\ (p.x # c.x \/ p.y # c.y) THEN "drag"
    ELSE "none"

\* C7: the touch diff looks at slots 0..max(len(prev), len(curr))-1 with the
\* default point for a missing entry, and has at most one event per slot, of
\* the kind the priority gives (none for a pressure-only change), carrying
\* curr's x, y, z, in ascending slot order.
C7_TouchDiffOneEventPerSlot ==
    LET ev == TouchEvents(touch)
        n == Max(Len(touch.prev), Len(touch.curr))
    IN  /\ \A i \in 1 .. Len(ev) : ev[i][1] \in 0 .. n - 1
        /\ \A i \in 1 .. Len(ev) - 1 : ev[i][1] < ev[i + 1][1]
        /\ \A t \in 0 .. n - 1 :
              LET p == SlotPoint(touch.prev, t)
                  c == SlotPoint(touch.curr, t)
              IN  IF SlotKind(p, c) = "none"
                  THEN \A i \in 1 .. Len(ev) : ev[i][1] # t
                  ELSE \E i \in 1 .. Len(ev) : ev[i] = <<t, c.x, c.y, c.z, SlotKind(p, c)>>

\* Snapshots of different lengths; slot 0 held in place with another pressure
\* (no event), and events for two later slots, one of them missing from prev
C7_Witness ==
    /\ Len(touch.prev) = 2 /\ Len(touch.curr) = 3
    /\ touch.prev[1].pressed /\ touch.curr[1].pressed
    /\ touch.prev[1].x = touch.curr[1].x /\ touch.prev[1].y = touch.curr[1].y
    /\ touch.prev[1].z # touch.curr[1].z
    /\ LET ev == TouchEvents(touch)
       IN  Len(ev) = 2 /\ ev[1][1] = 1 /\ ev[1][5] = "released"
                       /\ ev[2][1] = 2 /\ ev[2][5] = "pressed"

\* The snapshot a touch payload holds: record k (from 0) is at the 0-based
\* offsets 1+6k .. 6+6k; the byte at offset 0 is not read
TouchSnapshotOf(pl) ==
    LET n == IF Len(pl) < 7 THEN 0 ELSE Min(5, (Len(pl) - 1) \div 6)
    IN  [k \in 1 .. n |->
            [x |-> pl[6 * k - 3] * 128 + pl[6 * k - 4],
             y |-> pl[6 * k - 1] * 128 + pl[6 * k - 2],
             z |-> pl[6 * k],
             pressed |-> pl[6 * k + 1] # 0]]

\* C8: the touch decode never fails; curr gets min(5, floor((len - 1) / 6))
\* points (none below 7 bytes), point k read from offsets 1+6k .. 6+6k, and
\* the count byte changes nothing.
C8_TouchDecodeCompleteRecords ==
    op = "touch.update" =>
        /\ err = "none"
        /\ Len(touch.curr) \in 0 .. 5
        /\ touch.curr = TouchSnapshotOf(payload)

\* A count byte of 5 before two whole records and a cut-off third
C8_Witness ==
    /\ op = "touch.update"
    /\ Len(payload) = 18 /\ payload[1] = 5
    /\ Len(touch.curr) = 2 /\ touch.curr[1].x = 1010 /\ touch.curr[2].y = 1600

\* The four masks a whole neck payload holds
NeckSnapshotOf(pl) ==
    [i \in 1 .. 4 |-> pl[3 * i - 2] * 16384 + pl[3 * i - 1] * 128 + pl[3 * i]]

\* C9: both engines start all-zero / empty, and every successful decode makes
\* prev the curr of just before the call and curr a function of the payload.
C9_PrevIsThePriorCurr ==
    /\ neck = [prev |-> <<0, 0, 0, 0>>, curr |-> <<0, 0, 0, 0>>]
    /\ touch = [prev |-> <<>>, curr |-> <<>>]
    /\ [][/\ (op' = "neck.update" /\ err' = "none")
                => (neck'.prev = neck.curr /\ neck'.curr = NeckSnapshotOf(payload'))
          /\ (op' = "touch.update" /\ err' = "none")
                => (touch'.prev = touch.curr /\ touch'.curr = TouchSnapshotOf(payload'))]_vars

\* Both engines have decoded at least twice, with different snapshots
C9_Witness ==
    /\ op = "touch.update" /\ err = "none"
    /\ touch.prev # <<>> /\ touch.curr # <<>> /\ touch.prev # touch.curr
    /\ Len(neck.prev) = 4 /\ Len(neck.curr) = 4
    /\ neck.prev # <<0, 0, 0, 0>> /\ neck.curr # neck.prev

\* C10: decoding the three-byte encoding of a 16-bit mask gives the mask
\* back, at each of the four strings.
C10_NeckRoundTrip ==
    op = "neck.update" =>
        /\ err = "none"
        /\ Len(neck.curr) = NUM_STRINGS
        /\ \A i \in 1 .. NUM_STRINGS : neck.curr[i] = string_masks[i]

\* A mask with frets in all three bytes, and its complement, decoded
C10_Witness ==
    /\ op = "neck.update"
    /\ string_masks[1] = 40000 /\ string_masks[2] = 25535
    /\ neck.curr[3] = 40000 /\ neck.curr[4] = 25535

\* What frame k printed, in order
PrintedBy(k) ==
    LET out == SelectSeq(sink, LAMBDA e : e.port = "stdout" /\ e.frame = k)
    IN  [i \in 1 .. Len(out) |-> out[i].item]

\* C11: on a fresh bridge the neck frame with fret f alone on string s gives
\* exactly the event (s, f, true), and the all-zero frame after it exactly
\* (s, f, false); nothing else is written.
C11_SingleFretPressRelease ==
    \A s \in 0 .. 3, f \in 1 .. 16 :
        (string_masks = [i \in 1 .. 4 |-> IF i = s + 1 THEN Pow2(f - 1) ELSE 0]) =>
            /\ Len(inbound) >= 1 =>
                  /\ PrintedBy(1) = <<<<"String", s + 1, f, "ON">>>>
                  /\ Len(inbound) = 1 => NeckEvents(neck) = <<<<s, f, TRUE>>>>
            /\ Len(inbound) >= 2 =>
                  /\ PrintedBy(2) = <<<<"String", s + 1, f, "OFF">>>>
                  /\ NeckEvents(neck) = <<<<s, f, FALSE>>>>
            /\ Len(sink) = Len(inbound)
            /\ err = "none"

\* Fret 16 of the last string pressed and released
C11_Witness ==
    /\ Len(inbound) = 2
    /\ string_masks = <<0, 0, 0, 32768>>
    /\ Len(sink) = 2

\* C12: on a fresh bridge, slot 0 pressed at (x0, y0, z0), then held at a
\* different (x1, y1) with z1, then not pressed at (x1, y1, z1), gives exactly
\* Pressed(0, x0, y0, z0), then Dragged(0, x1, y1, z1), then
\* Released(0, x1, y1, z1), one per frame and nothing else.
C12_TouchLifecycle ==
    LET p0 == touch_points[1]
        p1 == touch_points[2]
    IN  /\ Len(inbound) >= 1 =>
              PrintedBy(1) = <<<<"Touch", 0, "pressed", p0.x, p0.y, p0.z>>>>
        /\ Len(inbound) >= 2 =>
              PrintedBy(2) = <<<<"Touch", 0, "drag", p1.x, p1.y, p1.z>>>>
        /\ Len(inbound) >= 3 =>
              PrintedBy(3) = <<<<"Touch", 0, "released", p1.x, p1.y, p1.z>>>>
        /\ Len(sink) = Len(inbound)
        /\ err = "none"

\* Pressed at (128, 0), dragged along x only to the far corner with another
\* pressure, released there
C12_Witness ==
    /\ Len(inbound) = 3
    /\ touch_points[1] = [x |-> 128, y |-> 16383, z |-> 0]
    /\ touch_points[2] = [x |-> 16383, y |-> 16383, z |-> 127]
    /\ Len(sink) = 3

\* The events of a touch diff that are about slot t, in order
SlotEvents(ev, t) == SelectSeq(ev, LAMBDA e : e[1] = t)

\* C13: a slot pressed in prev and reported not pressed in curr with fields
\* (x', y', z') gets Released(i, x', y', z'), whatever prev's fields were; a
\* slot pressed in prev and absent from curr gets Released(i, 0, 0, 0).
C13_ReleasedCarriesCurrent ==
    \A t \in 0 .. 4 :
        (t < Len(touch.prev) /\ touch.prev[t + 1].pressed) =>
            /\ (t < Len(touch.curr) /\ ~touch.curr[t + 1].pressed) =>
                  SlotEvents(TouchEvents(touch), t) =
                      <<<<t, touch.curr[t + 1].x, touch.curr[t + 1].y,
                          touch.curr[t + 1].z, "released">>>>
            /\ t >= Len(touch.curr) =>
                  SlotEvents(TouchEvents(touch), t) = <<<<t, 0, 0, 0, "released">>>>

\* Slot 0 pressed at (1000, 2000, 30) and then reported not pressed at
\* (1010, 2020, 40); slot 1 pressed and then absent
C13_Witness ==
    /\ Len(touch.prev) = 2 /\ Len(touch.curr) = 1
    /\ touch.prev[1] = [x |-> 1000, y |-> 2000, z |-> 30, pressed |-> TRUE]
    /\ touch.curr[1] = [x |-> 1010, y |-> 2020, z |-> 40, pressed |-> FALSE]
    /\ touch.prev[2].pressed
    /\ TouchEvents(touch) = <<<<0, 1010, 2020, 40, "released">>, <<1, 0, 0, 0, "released">>>>

\* Snapshots of a second run: none, one slot, two slots, three slots
OtherSnapshots ==
    {<<>>,
     <<[x |-> 1000, y |-> 2000, z |-> 30, pressed |-> TRUE]>>,
     <<[x |-> 1010, y |-> 2020, z |-> 40, pressed |-> FALSE],
       [x |-> 1500, y |-> 1600, z |-> 20, pressed |-> TRUE]>>,
     <<[x |-> 1000, y |-> 2000, z |-> 40, pressed |-> TRUE],
       [x |-> 0, y |-> 0, z |-> 0, pressed |-> FALSE],
       [x |-> 1, y |-> 1, z |-> 1, pressed |-> TRUE]>>}

\* The engine states of the second run
OtherTouchStates == {[prev |-> a, curr |-> b] : a, b \in OtherSnapshots}

\* Slot t has the same entries in prev and in curr in both engine states
AgreeOnSlot(a, b, t) ==
    /\ SlotPoint(a.prev, t) = SlotPoint(b.prev, t)
    /\ SlotPoint(a.curr, t) = SlotPoint(b.curr, t)

\* C14: two touch diffs whose states agree on slot i's entries in prev and
\* curr have the same events for slot i, whatever the other slots hold; and
\* when slots 0 and 1 go from not pressed to pressed together, the diff starts
\* with Pressed for slot 0, then Pressed for slot 1, each with its own x, y, z,
\* and these are the only events of the two slots.
C14_SlotsIndependent ==
    /\ \A other \in OtherTouchStates : \A t \in 0 .. 4 :
          AgreeOnSlot(touch, other, t) =>
              SlotEvents(TouchEvents(touch), t) = SlotEvents(TouchEvents(other), t)
    /\ (/\ Len(touch.curr) >= 2
        /\ \A t \in 0 .. 1 : ~SlotPoint(touch.prev, t).pressed /\ touch.curr[t + 1].pressed) =>
          LET ev == TouchEvents(touch)
              c0 == touch.curr[1]
              c1 == touch.curr[2]
          IN  /\ Len(ev) >= 2
              /\ ev[1] = <<0, c0.x, c0.y, c0.z, "pressed">>
              /\ ev[2] = <<1, c1.x, c1.y, c1.z, "pressed">>
              /\ \A i \in 3 .. Len(ev) : ev[i][1] >= 2
              /\ (Len(touch.curr) = 2 /\ Len(touch.prev) <= 2) => Len(ev) = 2

\* Slot 1 is pressed together with slot 0, at another place; the run differs
\* from a second run in slots 0 and 2 and agrees with it on slot 1
C14_Witness ==
    /\ Len(touch.curr) = 3
    /\ \A t \in 0 .. 1 : ~SlotPoint(touch.prev, t).pressed /\ touch.curr[t + 1].pressed
    /\ <<touch.curr[1].x, touch.curr[1].y>> # <<touch.curr[2].x, touch.curr[2].y>>
    /\ \E other \in OtherTouchStates :
          /\ AgreeOnSlot(touch, other, 1)
          /\ ~AgreeOnSlot(touch, other, 0) /\ ~AgreeOnSlot(touch, other, 2)
          /\ SlotEvents(TouchEvents(other), 1) = <<<<1, 1500, 1600, 20, "pressed">>>>
          /\ SlotEvents(TouchEvents(other), 0) = <<>>

\* C15: the diffs an engine returns between two decodes are all the same
\* list, and a diff call changes neither engine's prev or curr.
C15_DiffIdempotent ==
    [][(op' \in {"neck.events", "touch.events"}) =>
          /\ neck' = neck /\ touch' = touch
          /\ \A i \in 1 .. Len(ret) :
                ret[i].engine = ret'[Len(ret')].engine
                    => ret[i].events = ret'[Len(ret')].events]_vars

\* The neck engine has been diffed, then the touch engine, then the neck
\* engine again, with no decode between; both diffs have several events
C15_Witness ==
    /\ Len(ret) = 3
    /\ ret[1].engine = "neck" /\ ret[2].engine = "touch" /\ ret[3].engine = "neck"
    /\ Len(ret[2].events) >= 2 /\ Len(ret[3].events) >= 2

\* C16: an engine whose curr equals its prev has an empty diff; so the second
\* of two successive decodes of one payload, both successful, leaves the
\* engine with an empty diff.
C16_NoChangeNoEvents ==
    /\ [](/\ neck.curr = neck.prev => NeckEvents(neck) = <<>>
          /\ touch.curr = touch.prev => TouchEvents(touch) = <<>>)
    /\ [][/\ (/\ op = "neck.update" /\ op' = "neck.update"
              /\ payload' = payload /\ err = "none" /\ err' = "none")
                => NeckEvents(neck') = <<>>
          /\ (/\ op = "touch.update" /\ op' = "touch.update"
              /\ payload' = payload /\ err = "none" /\ err' = "none")
                => TouchEvents(touch') = <<>>]_vars

\* Each engine has decoded one payload twice in a row: frets are on and a
\* touch is held, and nothing changed
C16_Witness ==
    /\ Len(neck.curr) = 4 /\ neck.curr = neck.prev /\ neck.curr[1] = 65535
    /\ touch.curr = touch.prev /\ Len(touch.curr) = 1 /\ touch.curr[1].pressed
    /\ op = "touch.update"

\* The message kind of a tagged sysex frame, 0 for any other frame
KindOf(m) ==
    IF m.type = "sysex" /\ Len(m.data) >= 4 /\ \A i \in 1 .. 3 : m.data[i] = MFG_ID[i]
    THEN m.data[4]
    ELSE 0

\* C17: handling a neck frame leaves the touch snapshots as they were, a
\* touch frame the neck snapshots, a config frame or any other frame both;
\* the neck snapshots change only when a neck frame is handled and the touch
\* snapshots only when a touch frame is.
C17_EnginesIsolated ==
    [][op' = "_handle" =>
          /\ KindOf(msg') = 1 => touch' = touch
          /\ KindOf(msg') = 2 => neck' = neck
          /\ KindOf(msg') \notin {1, 2} => (neck' = neck /\ touch' = touch)
          /\ neck' # neck => KindOf(msg') = 1
          /\ touch' # touch => KindOf(msg') = 2]_vars

\* A neck frame, then a touch frame, then a config frame were handled, and
\* both engines still hold what their own frame gave them
C17_Witness ==
    /\ Len(inbound) = 3
    /\ KindOf(inbound[1]) = 1 /\ KindOf(inbound[2]) = 2 /\ KindOf(inbound[3]) = 3
    /\ neck.curr = <<9, 32, 0, 32768>>
    /\ Len(touch.curr) = 1 /\ touch.curr[1].pressed
    /\ err = "none"

\* C18: every neck event has a string index in 0..3 and a fret in 1..16;
\* snapshots that agree in the low 16 bits of every mask have an empty diff,
\* whatever their bits 16..20; and a whole payload decodes without error,
\* whatever its bits 16..20.
C18_HighBitsIgnored ==
    LET ev == NeckEvents(neck)
    IN  /\ \A i \in 1 .. Len(ev) : ev[i][1] \in 0 .. 3 /\ ev[i][2] \in 1 .. 16
        /\ (\A i \in (1 .. Len(neck.prev)) \cap (1 .. Len(neck.curr)) :
                neck.prev[i] % 65536 = neck.curr[i] % 65536)
              => ev = <<>>
        /\ (op = "neck.update" /\ Len(payload) >= 12) => err = "none"

\* A whole frame was decoded that differs from the previous snapshot in bit
\* 16 of string 2 only, with bit 20 set on string 4 in both
C18_Witness ==
    /\ op = "neck.update" /\ err = "none"
    /\ Len(neck.prev) = 4 /\ Len(neck.curr) = 4
    /\ neck.prev[2] = 128 /\ neck.curr[2] = 65536 + 128
    /\ neck.prev[4] = 1048576 + 65 /\ neck.curr[4] = neck.prev[4]
    /\ neck.prev[1] = neck.curr[1] /\ neck.prev[3] = neck.curr[3]

\* The lines printed so far for fret f of string s (from 0), in order
FretLines(s, f) ==
    SelectSeq([i \in 1 .. Len(Stdout) |-> Stdout[i].item],
              LAMBDA e : e[2] = s + 1 /\ e[3] = f)

\* Every frame handled so far is a neck frame with a whole payload
AllWholeNeckFrames ==
    \A k \in 1 .. Len(inbound) : KindOf(inbound[k]) = 1 /\ Len(inbound[k].data) >= 16

\* C19: after whole neck frames only, the events printed for each fret of
\* each string alternate ON, OFF, ON, ... starting with ON (no ON for a fret
\* that is on, no OFF for one that is off), and the fret ends up on exactly
\* when its bit, among the low 16, is set in curr: replaying the events on an
\* all-off board gives the low 16 bits of curr.
C19_EventsReplayToCurr ==
    AllWholeNeckFrames =>
        /\ Len(neck.curr) = 4
        /\ \A s \in 0 .. 3, f \in 1 .. 16 :
              LET lines == FretLines(s, f)
              IN  /\ \A i \in 1 .. Len(lines) :
                        lines[i][4] = IF i % 2 = 1 THEN "ON" ELSE "OFF"
                  /\ (Len(lines) % 2 = 1) <=> (Bit(neck.curr[s + 1], f - 1) = 1)
        /\ \A i \in 1 .. Len(Stdout) :
              Stdout[i].item[2] \in 1 .. 4 /\ Stdout[i].item[3] \in 1 .. 16

\* Three whole neck frames: fret 1 of string 1 went on, off and on again,
\* fret 16 of string 4 stayed on, and curr holds a bit above the sixteen
C19_Witness ==
    /\ Len(inbound) = 3 /\ AllWholeNeckFrames
    /\ Len(FretLines(0, 1)) = 3
    /\ Len(FretLines(3, 16)) = 1
    /\ neck.curr[1] = 65537

\* The kinds of the events printed so far for slot t, in order
SlotKinds(t) ==
    LET lines == SelectSeq([i \in 1 .. Len(Stdout) |-> Stdout[i].item],
                           LAMBDA e : e[2] = t)
    IN  [i \in 1 .. Len(lines) |-> lines[i][3]]

\* C20: the events of each slot form a prefix of (Pressed Dragged* Released)*:
\* the first is Pressed, after Pressed or Dragged comes Dragged or Released,
\* after Released comes Pressed; and after every frame the slot's last event
\* is a Pressed or Dragged exactly when the slot is present and pressed in
\* curr.
C20_SlotEventGrammar ==
    \A t \in 0 .. 4 :
        LET kinds == SlotKinds(t)
        IN  /\ Len(kinds) > 0 => kinds[1] = "pressed"
            /\ \A i \in 1 .. Len(kinds) - 1 :
                  IF kinds[i] = "released" THEN kinds[i + 1] = "pressed"
                  ELSE kinds[i + 1] \in {"drag", "released"}
            /\ (Len(kinds) > 0 /\ kinds[Len(kinds)] # "released")
                  <=> (t < Len(touch.curr) /\ touch.curr[t + 1].pressed)
            /\ \A i \in 1 .. Len(kinds) : kinds[i] \in {"pressed", "drag", "released"}

\* Slot 1 was pressed, dragged, and then left out of a shorter frame, which
\* released it; slot 0 was pressed, released and pressed again and is held
C20_Witness ==
    /\ Len(inbound) = 3
    /\ SlotKinds(1) = <<"pressed", "drag", "released">>
    /\ SlotKinds(0) = <<"pressed", "released", "pressed">>
    /\ Len(touch.curr) = 1 /\ Len(touch.prev) = 2

====
